---- MODULE Spec2Model ----
(***************************************************************************)
(* Crime Pattern Analysis dashboard: the aggregation functions of          *)
(* dashboard/utils.py and the script of dashboard/app.py that calls them.  *)
(*                                                                         *)
(* A table (pandas DataFrame) is a sequence of rows; a row is a record     *)
(* with the columns date, st_cluster, primary_type, arrest, hour.          *)
(* Timestamps are whole hours since 1970-01-01 00:00.  Rates that the code *)
(* computes in floating point are kept as exact reduced fractions          *)
(* [num, den]; the Percentage column of tab3 is an integer in hundredths.  *)
(* A division by zero gives what the code's arithmetic gives:  *)
(* numpy's NaN or infinity (a fraction with den = 0) or, between Python     *)
(* ints, a ZeroDivisionError.  latitude/longitude only feed the centroid    *)
(* means and are not modelled.                                              *)
(***************************************************************************)
EXTENDS Integers, Sequences, FiniteSets, TLC

VARIABLES pc, df, now, time_window, df_time, cluster_choice, df_filtered,
          total, hotspots, noise_pct, arrests_stats, hotspot_data,
          hour_dist, day_dist, top_n, crime_df, crime_stats,
          exception, csv_columns, avg_crimes_per_cluster, heatmap_pivot,
          daily_trend, arrest_by_crime, cluster_sizes, exact_key_metrics,
          arrest_rate_value, data_path_exists

vars == <<pc, df, now, time_window, df_time, cluster_choice, df_filtered,
          total, hotspots, noise_pct, arrests_stats, hotspot_data,
          hour_dist, day_dist, top_n, crime_df, crime_stats,
          exception, csv_columns, avg_crimes_per_cluster, heatmap_pivot,
          daily_trend, arrest_by_crime, cluster_sizes, exact_key_metrics,
          arrest_rate_value, data_path_exists>>

-----------------------------------------------------------------------------
(* Bounds of the input tables *)

MaxFilterRows == 3

MaxArrestRows == 3

MaxTemporalRows == 3

MaxPerCategory == 2

NumCategories == 6

MaxTopN == 3

NumClusters == 2

NumWeekdays == 3

(* Program constants *)

HoursPerDay == 24

NOISE == -1

day_order == <<"Monday", "Tuesday", "Wednesday", "Thursday", "Friday", "Saturday", "Sunday">>

(* the lexicographic order in which groupby("day_name") emits its keys *)
day_name_sorted == <<"Friday", "Monday", "Saturday", "Sunday", "Thursday", "Tuesday", "Wednesday">>

(* the first two options of the "Analysis Window" selectbox *)
TimeWindows == {7, 14}

(* st.selectbox "Select Hotspot": "All" or one cluster id *)
All == [all |-> TRUE, id |-> 0]

Hotspot(c) == [all |-> FALSE, id |-> c]

TOP_N_TAB3 == 10

NLARGEST_TAB4 == 8

-----------------------------------------------------------------------------
(* Generic helpers: sequences, fractions, rounding *)

RECURSIVE SumSeq(_)
SumSeq(s) == IF s = <<>> THEN 0 ELSE Head(s) + SumSeq(Tail(s))

Range(s) == {s[i] : i \in DOMAIN s}

Min(S) == CHOOSE x \in S : \A y \in S : x <= y

RECURSIVE SortedKeys(_)
SortedKeys(S) == IF S = {} THEN <<>> ELSE <<Min(S)>> \o SortedKeys(S \ {Min(S)})

RECURSIVE GCD(_, _)
GCD(a, b) == IF b = 0 THEN a ELSE GCD(b, a % b)

(* the float n / d; numpy gives NaN for 0 / 0 and infinity for n / 0 *)
Frac(n, d) ==
  IF d = 0 THEN [num |-> IF n > 0 THEN 1 ELSE IF n < 0 THEN 0 - 1 ELSE 0, den |-> 0]
  ELSE [num |-> n \div GCD(n, d), den |-> d \div GCD(n, d)]

NaN == Frac(0, 0)

ZeroDivisionError == [exception |-> "ZeroDivisionError"]

(* n / d between Python ints *)
PyDiv(n, d) == IF d = 0 THEN ZeroDivisionError ELSE Frac(n, d)

FracMul(f, k) == Frac(f.num * k, f.den)

(* numpy round(x, 2) of the fraction n/d, in hundredths: round half to even *)
Round2(n, d) ==
  LET q == (100 * n) \div d
      r == (100 * n) % d
  IN  IF 2 * r > d THEN q + 1
      ELSE IF 2 * r < d THEN q
      ELSE IF q % 2 = 0 THEN q ELSE q + 1

(* Series.round(2) of a float: NaN and infinity stay as they are *)
round2(f) == IF f.den = 0 THEN f ELSE Frac(Round2(f.num, f.den), 100)

IndexOf(s, x) == CHOOSE i \in DOMAIN s : s[i] = x

(* numpy argsort, stable: the positions of keys in ascending key order *)
RECURSIVE ArgsortFrom(_, _)
ArgsortFrom(keys, remaining) ==
  IF remaining = {} THEN <<>>
  ELSE LET i == CHOOSE a \in remaining : \A b \in remaining :
                  keys[a] < keys[b] \/ (keys[a] = keys[b] /\ a <= b)
       IN  <<i>> \o ArgsortFrom(keys, remaining \ {i})

Argsort(keys) == ArgsortFrom(keys, DOMAIN keys)

Take(s, perm) == [i \in DOMAIN perm |-> s[perm[i]]]

(* DataFrame.sort_values(by, ascending) on an integer column *)
sort_values(rows, by, ascending) ==
  Take(rows, Argsort([i \in DOMAIN rows |-> IF ascending THEN rows[i][by] ELSE 0 - rows[i][by]]))

(* DataFrame.head(n), n >= 0 *)
head(rows, n) == SubSeq(rows, 1, IF n < Len(rows) THEN n ELSE Len(rows))

(* the values of a column in first-encountered order, without repeats *)
RECURSIVE Unique(_)
Unique(s) ==
  IF s = <<>> THEN <<>>
  ELSE LET rest == Unique(SubSeq(s, 1, Len(s) - 1))
       IN  IF s[Len(s)] \in Range(rest) THEN rest ELSE Append(rest, s[Len(s)])

Column(rows, col) == [i \in DOMAIN rows |-> rows[i][col]]

CountEq(rows, col, v) == Cardinality({i \in DOMAIN rows : rows[i][col] = v})

(* Series.value_counts(): one (value, count) per distinct value, by         *)
(* descending count, equal counts in first-encountered order                *)
value_counts(column) ==
  LET keys == Unique(column)
      vc   == [i \in DOMAIN keys |->
                 [value |-> keys[i],
                  count |-> Cardinality({j \in DOMAIN column : column[j] = keys[i]})]]
  IN  sort_values(vc, "count", FALSE)

(* groupby(col).size().reset_index(name="count") on an integer column:      *)
(* one row per key present, keys ascending                                  *)
groupby_size(rows, col) ==
  LET keys == SortedKeys(Range(Column(rows, col)))
  IN  [i \in DOMAIN keys |-> [key |-> keys[i], count |-> CountEq(rows, col, keys[i])]]

-----------------------------------------------------------------------------
(* dashboard/utils.py *)

(* variant: strict comparison with the cutoff *)
apply_time_filter_strict(t, days, clock) ==
  LET cutoff == clock - days * HoursPerDay
      Keep(r) == r.date > cutoff
  IN  SelectSeq(t, Keep)

(* df[df["date"] >= cutoff], cutoff = datetime.now() - timedelta(days);     *)
(* clock is the value datetime.now() returns in this call                   *)
apply_time_filter(t, days, clock) ==
  LET cutoff == clock - days * HoursPerDay
      Keep(r) == r.date >= cutoff
  IN  SelectSeq(t, Keep)

(* variant: nunique() taken over all cluster ids, noise included *)
get_overview_metrics_all_ids(t) ==
  LET n        == Len(t)
      IsNoise(r) == r.st_cluster = NOISE
      mean     == Frac(Len(SelectSeq(t, IsNoise)), n)
  IN  [total     |-> n,
       hotspots  |-> Cardinality(Range(Column(t, "st_cluster"))),
       noise_pct |-> IF n > 0 THEN FracMul(mean, 100) ELSE Frac(0, 1)]

(* variant: the mean of the noise mask is used without the total > 0 test *)
get_overview_metrics_unguarded(t) ==
  LET n        == Len(t)
      IsNoise(r) == r.st_cluster = NOISE
      NotNoise(r) == r.st_cluster # NOISE
      mean     == Frac(Len(SelectSeq(t, IsNoise)), n)
  IN  [total     |-> n,
       hotspots  |-> Cardinality(Range(Column(SelectSeq(t, NotNoise), "st_cluster"))),
       noise_pct |-> FracMul(mean, 100)]

get_overview_metrics(t) ==
  LET n        == Len(t)
      IsNoise(r) == r.st_cluster = NOISE
      NotNoise(r) == r.st_cluster # NOISE
      mean     == Frac(Len(SelectSeq(t, IsNoise)), n)
  IN  [total     |-> n,
       hotspots  |-> Cardinality(Range(Column(SelectSeq(t, NotNoise), "st_cluster"))),
       noise_pct |-> IF n > 0 THEN FracMul(mean, 100) ELSE Frac(0, 1)]

(* variant: the noise id is treated like "All" *)
filter_by_cluster_noise_as_all(t, cluster) ==
  LET Match(r) == r.st_cluster = cluster.id
  IN  IF cluster = All \/ cluster.id = NOISE THEN t ELSE SelectSeq(t, Match)

filter_by_cluster(t, cluster) ==
  LET Match(r) == r.st_cluster = cluster.id
  IN  IF cluster = All THEN t ELSE SelectSeq(t, Match)

(* variant: head() taken before the categories are ordered by count *)
top_crime_types_unsorted(t, n) ==
  LET keys == head(Unique(Column(t, "primary_type")), n)
  IN  [i \in DOMAIN keys |->
         [crime_type |-> keys[i], crime_count |-> CountEq(t, "primary_type", keys[i])]]

top_crime_types(t, n) ==
  LET vc == head(value_counts(Column(t, "primary_type")), n)
  IN  [i \in DOMAIN vc |-> [crime_type |-> vc[i].value, crime_count |-> vc[i].count]]

(* the inner top_crime(s) of get_cluster_hotspots *)
top_crime(column) ==
  LET vc == value_counts(column)
  IN  IF Len(vc) > 0 THEN vc[1].value ELSE "-"

(* the groupby("st_cluster").agg(...) table with arrest_rate and the merged *)
(* top_crime_type, one row per cluster id of cluster_df, ids ascending.     *)
(* count=("primary_type", "count") counts the rows of the group whose       *)
(* primary_type is not null: every row of a table here has a primary_type,  *)
(* so it is the size of the group.                                          *)
cluster_agg(cluster_df) ==
  LET keys        == SortedKeys(Range(Column(cluster_df, "st_cluster")))
      Group(k)    == LET In(r) == r.st_cluster = k IN SelectSeq(cluster_df, In)
      Arrested(r) == r.arrest
      dates(k)    == Range(Column(Group(k), "date"))
  IN  [i \in DOMAIN keys |->
         LET g == Group(keys[i])
             arrests == Len(SelectSeq(g, Arrested))
         IN  [st_cluster     |-> keys[i],
              count          |-> Len(g),
              arrests        |-> arrests,
              date_min       |-> Min(dates(keys[i])),
              date_max       |-> 0 - Min({0 - d : d \in dates(keys[i])}),
              arrest_rate    |-> round2(FracMul(Frac(arrests, Len(g)), 100)),
              top_crime_type |-> top_crime(Column(g, "primary_type"))]]

(* variant: the noise rows are not removed before grouping *)
get_cluster_hotspots_with_noise(t) ==
  IF t = <<>> THEN <<>> ELSE sort_values(cluster_agg(t), "count", FALSE)

(* variant: sort_values without ascending=False *)
get_cluster_hotspots_ascending(t) ==
  LET NotNoise(r) == r.st_cluster # NOISE
      cluster_df  == SelectSeq(t, NotNoise)
  IN  IF cluster_df = <<>> THEN <<>> ELSE sort_values(cluster_agg(cluster_df), "count", TRUE)

(* the st_cluster column is always present in a loaded table, so the first *)
(* early return of the function is never taken                              *)
get_cluster_hotspots(t) ==
  LET NotNoise(r) == r.st_cluster # NOISE
      cluster_df  == SelectSeq(t, NotNoise)
  IN  IF cluster_df = <<>> THEN <<>> ELSE sort_values(cluster_agg(cluster_df), "count", FALSE)

(* variant: the hours come from value_counts(), most frequent first *)
get_hour_crime_distribution_by_count(t) ==
  LET vc == value_counts(Column(t, "hour"))
  IN  [i \in DOMAIN vc |->
         [hour |-> vc[i].value, count |-> vc[i].count,
          hour_label |-> ToString(vc[i].value) \o ":00"]]

get_hour_crime_distribution(t) ==
  LET hd == groupby_size(t, "hour")
  IN  [i \in DOMAIN hd |->
         [hour |-> hd[i].key, count |-> hd[i].count, hour_label |-> ToString(hd[i].key) \o ":00"]]

(* groupby("day_name").size(): the day names present, in lexicographic     *)
(* order; code is the position the Categorical conversion gives each name   *)
day_name_groupby(t) ==
  LET Present(d) == d \in Range(Column(t, "day_name"))
      keys       == SelectSeq(day_name_sorted, Present)
  IN  [i \in DOMAIN keys |->
         [day_name |-> keys[i],
          code     |-> IndexOf(day_order, keys[i]),
          count    |-> CountEq(t, "day_name", keys[i])]]

(* variant: the rows are returned in groupby order, without sort_values *)
get_day_week_distribution_unsorted(t) ==
  LET dd == day_name_groupby(t)
  IN  [i \in DOMAIN dd |-> [day_name |-> dd[i].day_name, count |-> dd[i].count]]

get_day_week_distribution(t) ==
  LET sorted == sort_values(day_name_groupby(t), "code", TRUE)
  IN  [i \in DOMAIN sorted |-> [day_name |-> sorted[i].day_name, count |-> sorted[i].count]]

(* variant: the mean of the arrest flags is not scaled to a percentage *)
get_arrest_statistics_unscaled(t) ==
  LET Arrested(r)   == r.arrest
      total_arrests == Len(SelectSeq(t, Arrested))
  IN  [total_arrests |-> total_arrests,
       arrest_rate   |-> IF Len(t) > 0 THEN Frac(total_arrests, Len(t)) ELSE Frac(0, 1)]

(* variant: the rate is computed without the len(df) > 0 test *)
get_arrest_statistics_unguarded(t) ==
  LET Arrested(r)   == r.arrest
      total_arrests == Len(SelectSeq(t, Arrested))
  IN  [total_arrests |-> total_arrests,
       arrest_rate   |-> FracMul(Frac(total_arrests, Len(t)), 100)]

get_arrest_statistics(t) ==
  LET Arrested(r)   == r.arrest
      total_arrests == Len(SelectSeq(t, Arrested))
  IN  [total_arrests |-> total_arrests,
       arrest_rate   |-> IF Len(t) > 0 THEN FracMul(Frac(total_arrests, Len(t)), 100)
                         ELSE Frac(0, 1)]

get_exact_key_metrics(t) ==
  LET n                  == Len(t)
      IsNoise(r)         == r.st_cluster = NOISE
      NotNoise(r)        == r.st_cluster # NOISE
      Arrested(r)        == r.arrest
      hotspot_df         == SelectSeq(t, NotNoise)
      hotspot_count      == Cardinality(Range(Column(hotspot_df, "st_cluster")))
      total_arrests      == Len(SelectSeq(t, Arrested))
      noise_count        == Len(SelectSeq(t, IsNoise))
      arrest_rate_pct    == PyDiv(total_arrests, n)
      noise_ratio        == PyDiv(noise_count, n)
  IN  IF n = 0
      THEN [total_crimes |-> 0, noise_count |-> 0, crimes_in_hotspots |-> 0,
            hotspot_count |-> 0, total_arrests |-> 0, arrest_rate_pct |-> Frac(0, 1),
            noise_pct |-> Frac(0, 1), avg_per_hotspot |-> Frac(0, 1)]
      ELSE IF arrest_rate_pct = ZeroDivisionError \/ noise_ratio = ZeroDivisionError
      THEN ZeroDivisionError
      ELSE [total_crimes       |-> n,
            noise_count        |-> noise_count,
            crimes_in_hotspots |-> Len(hotspot_df),
            hotspot_count      |-> hotspot_count,
            total_arrests      |-> total_arrests,
            arrest_rate_pct    |-> FracMul(arrest_rate_pct, 100),
            noise_pct          |-> FracMul(noise_ratio, 100),
            avg_per_hotspot    |-> IF hotspot_count > 0
                                   THEN PyDiv(Len(hotspot_df), hotspot_count)
                                   ELSE Frac(0, 1)]

hourly_distribution(t) ==
  LET hd == groupby_size(t, "hour")
  IN  [i \in DOMAIN hd |-> [hour |-> hd[i].key, count |-> hd[i].count]]

arrest_rate(t) ==
  LET Arrested(r) == r.arrest
  IN  IF Len(t) = 0 THEN Frac(0, 1) ELSE FracMul(Frac(Len(SelectSeq(t, Arrested)), Len(t)), 100)

(* groupby(df["date"].dt.date).size(): one row per calendar day present,    *)
(* days ascending; a day is numbered from 1970-01-01                        *)
get_daily_crime_trend(t) ==
  LET days == SortedKeys({t[i].date \div HoursPerDay : i \in DOMAIN t})
  IN  [i \in DOMAIN days |->
         [date   |-> days[i],
          crimes |-> Cardinality({j \in DOMAIN t : t[j].date \div HoursPerDay = days[i]})]]

-----------------------------------------------------------------------------
(* The datasets the loader can return: tables in which one group of        *)
(* columns varies and the others hold a fixed in-window value.             *)

(* Friday 2024-10-04 12:00 *)
NowBase == 20000 * HoursPerDay + 12

Nows == {NowBase}

ClusterIds == {NOISE} \cup (1 .. NumClusters)

CategoryNames == <<"ASSAULT", "BATTERY", "BURGLARY", "NARCOTICS", "ROBBERY",
                   "THEFT", "VANDALISM", "WEAPONS">>

Row(d, c, ty, a, h) ==
  [date |-> d, st_cluster |-> c, primary_type |-> ty, arrest |-> a, hour |-> h]

TablesOver(R, n) == UNION {[1 .. k -> R] : k \in 0 .. n}

(* dates on both sides of the cutoffs, and one in the future *)
FilterDates == {NowBase - 7 * HoursPerDay, NowBase - 14 * HoursPerDay + 1, NowBase + HoursPerDay}

(* the dates vary, over noise and one hotspot; ArrestTables vary the hotspots *)
FilterTables ==
  TablesOver({Row(d, c, "THEFT", FALSE, 12) : d \in FilterDates, c \in {NOISE, 1}}, MaxFilterRows)

ArrestTables ==
  TablesOver({Row(NowBase - HoursPerDay, c, "THEFT", a, 12) : c \in ClusterIds, a \in BOOLEAN},
             MaxArrestRows)

TemporalTables ==
  TablesOver({Row(NowBase - k * HoursPerDay, 1, "THEFT", FALSE, h) :
                k \in 1 .. NumWeekdays, h \in {0, 23}}, MaxTemporalRows)

RECURSIVE CategoryBlocks(_, _)
CategoryBlocks(counts, i) ==
  IF i > NumCategories THEN <<>>
  ELSE [j \in 1 .. counts[i] |-> Row(NowBase - HoursPerDay, 1, CategoryNames[i], FALSE, 12)]
       \o CategoryBlocks(counts, i + 1)

(* category i occurs counts[i] times *)
CategoryTables ==
  {CategoryBlocks(counts, 1) : counts \in [1 .. NumCategories -> 0 .. MaxPerCategory]}

Datasets == FilterTables \cup ArrestTables \cup TemporalTables \cup CategoryTables

-----------------------------------------------------------------------------
(* dashboard/app.py: one run of the script *)

(* Series.dt.day_name() of a timestamp; 1970-01-01 was a Thursday *)
day_name(d) == day_order[(((d \div HoursPerDay) + 3) % 7) + 1]

(* str(float) of a value given in hundredths, followed by "%" *)
PercentageStr(q) ==
  LET whole == ToString(q \div 100)
      frac  == q % 100
  IN  whole \o "." \o (IF frac % 10 = 0 THEN ToString(frac \div 10)
                       ELSE IF frac < 10 THEN "0" \o ToString(frac)
                       ELSE ToString(frac)) \o "%"

(* variant: the percentage is truncated to 2 decimals instead of rounded *)
crime_type_statistics_truncated(cdf) ==
  LET total_count == SumSeq(Column(cdf, "crime_count"))
      pct(i) == IF total_count > 0 THEN (10000 * cdf[i].crime_count) \div total_count ELSE 0
  IN  [i \in DOMAIN cdf |->
         [Crime_Type |-> cdf[i].crime_type,
          Count      |-> cdf[i].crime_count,
          pct        |-> pct(i),
          Percentage |-> IF total_count > 0 THEN PercentageStr(pct(i)) ELSE "0%"]]

(* tab3, "Crime Type Statistics Table" *)
crime_type_statistics(cdf) ==
  LET total_count == SumSeq(Column(cdf, "crime_count"))
      pct(i) == IF total_count > 0 THEN Round2(100 * cdf[i].crime_count, total_count) ELSE 0
  IN  [i \in DOMAIN cdf |->
         [Crime_Type |-> cdf[i].crime_type,
          Count      |-> cdf[i].crime_count,
          pct        |-> pct(i),
          Percentage |-> IF total_count > 0 THEN PercentageStr(pct(i)) ELSE "0%"]]

NoFrac == Frac(0, 1)

NoPivot == [index |-> <<>>, columns |-> <<>>, data |-> <<>>, na |-> {}]

NoMetrics == get_exact_key_metrics(<<>>)

Init ==
  /\ pc = "start"
  /\ df = <<>>
  /\ now = 0
  /\ time_window = 0
  /\ df_time = <<>>
  /\ cluster_choice = All
  /\ df_filtered = <<>>
  /\ total = 0
  /\ hotspots = 0
  /\ noise_pct = NoFrac
  /\ arrests_stats = [total_arrests |-> 0, arrest_rate |-> NoFrac]
  /\ hotspot_data = <<>>
  /\ hour_dist = <<>>
  /\ day_dist = <<>>
  /\ top_n = 0
  /\ crime_df = <<>>
  /\ crime_stats = <<>>
  /\ exception = "none"
  /\ csv_columns = {}
  /\ avg_crimes_per_cluster = NoFrac
  /\ heatmap_pivot = NoPivot
  /\ daily_trend = <<>>
  /\ arrest_by_crime = <<>>
  /\ cluster_sizes = <<>>
  /\ exact_key_metrics = NoMetrics
  /\ arrest_rate_value = NoFrac
  /\ data_path_exists = FALSE

required_cols ==
  {"latitude", "longitude", "primary_type", "arrest", "hour", "st_cluster", "date"}

(* the CSV files the loader may find: any set of the required columns *)
CsvColumnSets == SUBSET required_cols

(* the exception load_crime_data() raises, "none" when it returns the table: *)
(* df["date"] is read for the datetime parse before the sanity check         *)
load_crime_data(path_exists, columns) ==
  IF ~path_exists THEN "FileNotFoundError"
  ELSE IF "date" \notin columns THEN "KeyError"
  ELSE IF required_cols \ columns # {} THEN "ValueError"
  ELSE "none"

(* df = cached_load_data(); each except branch reports and calls st.stop() *)
LoadData ==
  /\ pc = "start"
  /\ \E path_exists \in BOOLEAN, columns \in CsvColumnSets, t \in Datasets :
       LET raised == load_crime_data(path_exists, columns)
       IN  /\ path_exists \/ columns = {}
           /\ (raised # "none") => t = <<>>
           /\ data_path_exists' = path_exists
           /\ csv_columns' = columns
           /\ exception' = raised
           /\ df' = IF raised = "none" THEN t ELSE df
           /\ pc' = IF raised = "none" THEN "sidebar_time" ELSE "load_failed"
  /\ UNCHANGED <<now, time_window, df_time, cluster_choice, df_filtered, total, hotspots,
                 noise_pct, arrests_stats, hotspot_data, hour_dist, day_dist, top_n, crime_df,
                 crime_stats, avg_crimes_per_cluster, heatmap_pivot, daily_trend,
                 arrest_by_crime, cluster_sizes, exact_key_metrics, arrest_rate_value>>

(* st.cache_data keeps no result for a call that raised: the next run of *)
(* the script loads again                                                *)
RerunAfterLoadFailure ==
  /\ pc = "load_failed"
  /\ pc' = "start"
  /\ exception' = "none"
  /\ csv_columns' = {}
  /\ data_path_exists' = FALSE
  /\ UNCHANGED <<df, now, time_window, df_time, cluster_choice, df_filtered, total, hotspots,
                 noise_pct, arrests_stats, hotspot_data, hour_dist, day_dist, top_n, crime_df,
                 crime_stats, avg_crimes_per_cluster, heatmap_pivot, daily_trend,
                 arrest_by_crime, cluster_sizes, exact_key_metrics, arrest_rate_value>>

(* time_window selectbox; df_time = apply_time_filter(df, time_window) *)
SidebarTime ==
  /\ pc = "sidebar_time"
  /\ \E w \in TimeWindows, clock \in Nows :
       /\ time_window' = w
       /\ now' = clock
       /\ df_time' = apply_time_filter(df, w, clock)
  /\ pc' = "sidebar_cluster"
  /\ UNCHANGED <<df, cluster_choice, df_filtered, total, hotspots, noise_pct, arrests_stats,
                 hotspot_data, hour_dist, day_dist, top_n, crime_df, crime_stats, exception,
                 csv_columns, avg_crimes_per_cluster, heatmap_pivot, daily_trend,
                 arrest_by_crime, cluster_sizes, exact_key_metrics, arrest_rate_value,
                 data_path_exists>>

(* the options of the "Select Hotspot" selectbox: ["All"] + clusters *)
HotspotOptions(t) ==
  {All} \cup {Hotspot(c) : c \in {r.st_cluster : r \in Range(t)} \ {NOISE}}

SidebarCluster ==
  /\ pc = "sidebar_cluster"
  /\ \E choice \in HotspotOptions(df_time) :
       /\ cluster_choice' = choice
       /\ df_filtered' = filter_by_cluster(df_time, choice)
  /\ pc' = "key_metrics"
  /\ UNCHANGED <<df, now, time_window, df_time, total, hotspots, noise_pct, arrests_stats,
                 hotspot_data, hour_dist, day_dist, top_n, crime_df, crime_stats, exception,
                 csv_columns, avg_crimes_per_cluster, heatmap_pivot, daily_trend,
                 arrest_by_crime, cluster_sizes, exact_key_metrics, arrest_rate_value,
                 data_path_exists>>

(* key metrics; total / hotspots is a division of Python ints, so without *)
(* its hotspots > 0 test the script would end in a ZeroDivisionError;       *)
(* st.stop() when total == 0                                                *)
KeyMetrics ==
  /\ pc = "key_metrics"
  /\ LET m   == get_overview_metrics(df_filtered)
         avg == IF m.hotspots > 0 THEN PyDiv(m.total, m.hotspots) ELSE Frac(0, 1)
     IN  /\ total' = m.total
         /\ hotspots' = m.hotspots
         /\ noise_pct' = m.noise_pct
         /\ avg_crimes_per_cluster' = IF avg = ZeroDivisionError THEN avg_crimes_per_cluster
                                      ELSE avg
         /\ exception' = IF avg = ZeroDivisionError THEN "ZeroDivisionError" ELSE exception
         /\ pc' = IF avg = ZeroDivisionError THEN "crashed"
                  ELSE IF m.total = 0 THEN "stopped" ELSE "tab1"
  /\ arrests_stats' = get_arrest_statistics(df_filtered)
  /\ UNCHANGED <<df, now, time_window, df_time, cluster_choice, df_filtered, hotspot_data,
                 hour_dist, day_dist, top_n, crime_df, crime_stats, csv_columns, heatmap_pivot,
                 daily_trend, arrest_by_crime, cluster_sizes, exact_key_metrics,
                 arrest_rate_value, data_path_exists>>

Tab1Hotspots ==
  /\ pc = "tab1"
  /\ hotspot_data' = get_cluster_hotspots(df_filtered)
  /\ pc' = "tab2_day_name"
  /\ UNCHANGED <<df, now, time_window, df_time, cluster_choice, df_filtered, total, hotspots,
                 noise_pct, arrests_stats, hour_dist, day_dist, top_n, crime_df, crime_stats,
                 exception, csv_columns, avg_crimes_per_cluster, heatmap_pivot, daily_trend,
                 arrest_by_crime, cluster_sizes, exact_key_metrics, arrest_rate_value,
                 data_path_exists>>

with_day_name(t) ==
  [i \in DOMAIN t |->
     [date |-> t[i].date, st_cluster |-> t[i].st_cluster, primary_type |-> t[i].primary_type,
      arrest |-> t[i].arrest, hour |-> t[i].hour, day_name |-> day_name(t[i].date)]]

(* df_filtered["day_name"] = ...: filter_by_cluster returned df_time itself *)
(* for "All", so the new column lands in df_time as well                    *)
Tab2DayName ==
  /\ pc = "tab2_day_name"
  /\ df_filtered' = with_day_name(df_filtered)
  /\ df_time' = IF cluster_choice = All THEN with_day_name(df_filtered) ELSE df_time
  /\ pc' = "tab2_heatmap"
  /\ UNCHANGED <<df, now, time_window, cluster_choice, total, hotspots, noise_pct,
                 arrests_stats, hotspot_data, hour_dist, day_dist, top_n, crime_df,
                 crime_stats, exception, csv_columns, avg_crimes_per_cluster, heatmap_pivot,
                 daily_trend, arrest_by_crime, cluster_sizes, exact_key_metrics,
                 arrest_rate_value, data_path_exists>>

range_24 == [i \in 1 .. 24 |-> i - 1]

(* A pivot table is its row labels, its column labels, the 2-D array of   *)
(* its values by position, and the set na of the (row label, column       *)
(* label) pairs whose cell is NaN; the array holds 0 under a NaN.          *)
(* heatmap_df.pivot(index="day_name", columns="hour", values="count"): the *)
(* rows are the weekdays observed, in category order, the columns the      *)
(* hours observed, ascending; a pair that was not observed is NaN          *)
pivot(t) ==
  LET DayPresent(d) == d \in Range(Column(t, "day_name"))
      days  == SelectSeq(day_order, DayPresent)
      hours == SortedKeys(Range(Column(t, "hour")))
      Count(d, h) == LET In(r) == r.day_name = d /\ r.hour = h IN Len(SelectSeq(t, In))
  IN  [index   |-> days,
       columns |-> hours,
       data    |-> [i \in DOMAIN days |-> [j \in DOMAIN hours |-> Count(days[i], hours[j])]],
       na      |-> {<<d, h>> \in Range(days) \X Range(hours) : Count(d, h) = 0}]

fillna(p, value) ==
  [index   |-> p.index,
   columns |-> p.columns,
   data    |-> [i \in DOMAIN p.index |->
                  [j \in DOMAIN p.columns |->
                     IF <<p.index[i], p.columns[j]>> \in p.na THEN value ELSE p.data[i][j]]],
   na      |-> {}]

(* a label that is not in the index gets a row of NaN *)
reindex(p, labels) ==
  [index   |-> labels,
   columns |-> p.columns,
   data    |-> [i \in DOMAIN labels |->
                  IF labels[i] \in Range(p.index) THEN p.data[IndexOf(p.index, labels[i])]
                  ELSE [j \in DOMAIN p.columns |-> 0]],
   na      |-> {c \in p.na : c[1] \in Range(labels)}
               \cup {<<d, h>> \in Range(labels) \X Range(p.columns) : d \notin Range(p.index)}]

(* heatmap_pivot[h] = 0 for each h of range(24) that is not a column, then *)
(* the columns are selected in the order of range(24)                      *)
ensure_all_hours(p) ==
  [index   |-> p.index,
   columns |-> range_24,
   data    |-> [i \in DOMAIN p.index |->
                  [j \in DOMAIN range_24 |->
                     IF range_24[j] \in Range(p.columns)
                     THEN p.data[i][IndexOf(p.columns, range_24[j])] ELSE 0]],
   na      |-> p.na]

build_heatmap_pivot(t) ==
  ensure_all_hours(reindex(fillna(pivot(t), 0), day_order))

Tab2Heatmap ==
  /\ pc = "tab2_heatmap"
  /\ heatmap_pivot' = build_heatmap_pivot(df_filtered)
  /\ pc' = "tab2_hour"
  /\ UNCHANGED <<df, now, time_window, df_time, cluster_choice, df_filtered, total, hotspots,
                 noise_pct, arrests_stats, hotspot_data, hour_dist, day_dist, top_n, crime_df,
                 crime_stats, exception, csv_columns, avg_crimes_per_cluster, daily_trend,
                 arrest_by_crime, cluster_sizes, exact_key_metrics, arrest_rate_value,
                 data_path_exists>>

Tab2Hour ==
  /\ pc = "tab2_hour"
  /\ hour_dist' = get_hour_crime_distribution(df_filtered)
  /\ pc' = "tab2_day"
  /\ UNCHANGED <<df, now, time_window, df_time, cluster_choice, df_filtered, total, hotspots,
                 noise_pct, arrests_stats, hotspot_data, day_dist, top_n, crime_df,
                 crime_stats, exception, csv_columns, avg_crimes_per_cluster, heatmap_pivot,
                 daily_trend, arrest_by_crime, cluster_sizes, exact_key_metrics,
                 arrest_rate_value, data_path_exists>>

Tab2Day ==
  /\ pc = "tab2_day"
  /\ day_dist' = get_day_week_distribution(df_filtered)
  /\ pc' = "tab2_trend"
  /\ UNCHANGED <<df, now, time_window, df_time, cluster_choice, df_filtered, total, hotspots,
                 noise_pct, arrests_stats, hotspot_data, hour_dist, top_n, crime_df,
                 crime_stats, exception, csv_columns, avg_crimes_per_cluster, heatmap_pivot,
                 daily_trend, arrest_by_crime, cluster_sizes, exact_key_metrics,
                 arrest_rate_value, data_path_exists>>

Tab2Trend ==
  /\ pc = "tab2_trend"
  /\ daily_trend' = get_daily_crime_trend(df_filtered)
  /\ pc' = "tab3"
  /\ UNCHANGED <<df, now, time_window, df_time, cluster_choice, df_filtered, total, hotspots,
                 noise_pct, arrests_stats, hotspot_data, hour_dist, day_dist, top_n, crime_df,
                 crime_stats, exception, csv_columns, avg_crimes_per_cluster, heatmap_pivot,
                 arrest_by_crime, cluster_sizes, exact_key_metrics, arrest_rate_value,
                 data_path_exists>>

Tab3CrimeTypes ==
  /\ pc = "tab3"
  /\ LET cdf == sort_values(top_crime_types(df_filtered, TOP_N_TAB3), "crime_count", TRUE)
     IN  /\ top_n' = TOP_N_TAB3
         /\ crime_df' = cdf
         /\ crime_stats' = crime_type_statistics(cdf)
  /\ pc' = "tab4"
  /\ UNCHANGED <<df, now, time_window, df_time, cluster_choice, df_filtered, total, hotspots,
                 noise_pct, arrests_stats, hotspot_data, hour_dist, day_dist, exception,
                 csv_columns, avg_crimes_per_cluster, heatmap_pivot, daily_trend,
                 arrest_by_crime, cluster_sizes, exact_key_metrics, arrest_rate_value,
                 data_path_exists>>

(* tab4, "Arrest Rate by Crime Type": groupby("primary_type") emits the     *)
(* categories in lexicographic order, which is their order in CategoryNames; *)
(* the total of a group is the count of its arrest flags, none of them null  *)
arrest_rate_by_crime_type(t) ==
  LET Present(c) == c \in Range(Column(t, "primary_type"))
      keys       == SelectSeq(CategoryNames, Present)
      Group(c)   == LET In(r) == r.primary_type = c IN SelectSeq(t, In)
      Arrested(r) == r.arrest
      rows == [i \in DOMAIN keys |->
                 LET g == Group(keys[i])
                 IN  [crime_type  |-> keys[i],
                      arrests     |-> Len(SelectSeq(g, Arrested)),
                      total       |-> Len(g),
                      arrest_rate |-> round2(FracMul(Frac(Len(SelectSeq(g, Arrested)), Len(g)),
                                                     100))]]
  IN  head(sort_values(rows, "total", FALSE), NLARGEST_TAB4)

(* tab4, "Cluster Size Distribution" *)
cluster_size_distribution(t) ==
  LET NotNoise(r) == r.st_cluster # NOISE
      sizes == groupby_size(SelectSeq(t, NotNoise), "st_cluster")
  IN  sort_values([i \in DOMAIN sizes |-> [st_cluster |-> sizes[i].key, size |-> sizes[i].count]],
                  "size", FALSE)

(* the summary metrics and the raw data sample of tab4 are only displayed *)
Tab4Details ==
  /\ pc = "tab4"
  /\ arrest_by_crime' = arrest_rate_by_crime_type(df_filtered)
  /\ cluster_sizes' = cluster_size_distribution(df_filtered)
  /\ pc' = "done"
  /\ UNCHANGED <<df, now, time_window, df_time, cluster_choice, df_filtered, total, hotspots,
                 noise_pct, arrests_stats, hotspot_data, hour_dist, day_dist, top_n, crime_df,
                 crime_stats, exception, csv_columns, avg_crimes_per_cluster, heatmap_pivot,
                 daily_trend, exact_key_metrics, arrest_rate_value, data_path_exists>>

(* a widget change reruns the script from the top; the loaded table is cached *)
Rerun ==
  /\ pc \in {"done", "stopped", "crashed"}
  /\ pc' = "sidebar_time"
  /\ now' = 0
  /\ time_window' = 0
  /\ df_time' = <<>>
  /\ cluster_choice' = All
  /\ df_filtered' = <<>>
  /\ total' = 0
  /\ hotspots' = 0
  /\ noise_pct' = NoFrac
  /\ arrests_stats' = [total_arrests |-> 0, arrest_rate |-> NoFrac]
  /\ hotspot_data' = <<>>
  /\ hour_dist' = <<>>
  /\ day_dist' = <<>>
  /\ top_n' = 0
  /\ crime_df' = <<>>
  /\ crime_stats' = <<>>
  /\ exception' = "none"
  /\ avg_crimes_per_cluster' = NoFrac
  /\ heatmap_pivot' = NoPivot
  /\ daily_trend' = <<>>
  /\ arrest_by_crime' = <<>>
  /\ cluster_sizes' = <<>>
  /\ UNCHANGED <<df, csv_columns, exact_key_metrics, arrest_rate_value, data_path_exists>>

Next ==
  \/ LoadData
  \/ SidebarTime
  \/ SidebarCluster
  \/ KeyMetrics
  \/ Tab1Hotspots
  \/ Tab2DayName
  \/ Tab2Heatmap
  \/ Tab2Hour
  \/ Tab2Day
  \/ Tab2Trend
  \/ Tab3CrimeTypes
  \/ Tab4Details
  \/ Rerun
  \/ RerunAfterLoadFailure

Spec == Init /\ [][Next]_vars

-----------------------------------------------------------------------------
(* Direct calls of the utils functions on a loaded table, with arguments    *)
(* the dashboard's widgets do not offer                                     *)

Selectors == {All} \cup {Hotspot(c) : c \in ClusterIds \cup {NumClusters + 1}}

CallFilterByCluster ==
  /\ pc = "start"
  /\ \E t \in Datasets, choice \in Selectors :
       /\ df' = t
       /\ cluster_choice' = choice
       /\ df_filtered' = filter_by_cluster(t, choice)
  /\ pc' = "called_filter_by_cluster"
  /\ UNCHANGED <<now, time_window, df_time, total, hotspots, noise_pct, arrests_stats,
                 hotspot_data, hour_dist, day_dist, top_n, crime_df, crime_stats, exception,
                 csv_columns, avg_crimes_per_cluster, heatmap_pivot, daily_trend,
                 arrest_by_crime, cluster_sizes, exact_key_metrics, arrest_rate_value,
                 data_path_exists>>

CallTopCrimeTypes ==
  /\ pc = "start"
  /\ \E t \in Datasets, n \in 0 .. MaxTopN :
       /\ df' = t
       /\ top_n' = n
       /\ crime_df' = top_crime_types(t, n)
  /\ pc' = "called_top_crime_types"
  /\ UNCHANGED <<now, time_window, df_time, cluster_choice, df_filtered, total, hotspots,
                 noise_pct, arrests_stats, hotspot_data, hour_dist, day_dist, crime_stats,
                 exception, csv_columns, avg_crimes_per_cluster, heatmap_pivot, daily_trend,
                 arrest_by_crime, cluster_sizes, exact_key_metrics, arrest_rate_value,
                 data_path_exists>>

CallOverviewMetrics ==
  /\ pc = "start"
  /\ \E t \in Datasets :
       /\ df' = t
       /\ df_filtered' = t
       /\ total' = get_overview_metrics(t).total
       /\ hotspots' = get_overview_metrics(t).hotspots
       /\ noise_pct' = get_overview_metrics(t).noise_pct
  /\ pc' = "called_get_overview_metrics"
  /\ UNCHANGED <<now, time_window, df_time, cluster_choice, arrests_stats, hotspot_data,
                 hour_dist, day_dist, top_n, crime_df, crime_stats, exception, csv_columns,
                 avg_crimes_per_cluster, heatmap_pivot, daily_trend, arrest_by_crime,
                 cluster_sizes, exact_key_metrics, arrest_rate_value, data_path_exists>>

(* a ZeroDivisionError leaves the function without a result *)
CallExactKeyMetrics ==
  /\ pc = "start"
  /\ \E t \in Datasets :
       /\ df' = t
       /\ df_filtered' = t
       /\ exception' = IF get_exact_key_metrics(t) = ZeroDivisionError
                       THEN "ZeroDivisionError" ELSE "none"
       /\ exact_key_metrics' = IF get_exact_key_metrics(t) = ZeroDivisionError
                               THEN exact_key_metrics ELSE get_exact_key_metrics(t)
  /\ pc' = "called_get_exact_key_metrics"
  /\ UNCHANGED <<now, time_window, df_time, cluster_choice, total, hotspots, noise_pct,
                 arrests_stats, hotspot_data, hour_dist, day_dist, top_n, crime_df,
                 crime_stats, csv_columns, avg_crimes_per_cluster, heatmap_pivot, daily_trend,
                 arrest_by_crime, cluster_sizes, arrest_rate_value, data_path_exists>>

CallHourlyDistribution ==
  /\ pc = "start"
  /\ \E t \in Datasets :
       /\ df' = t
       /\ df_filtered' = t
       /\ hour_dist' = hourly_distribution(t)
  /\ pc' = "called_hourly_distribution"
  /\ UNCHANGED <<now, time_window, df_time, cluster_choice, total, hotspots, noise_pct,
                 arrests_stats, hotspot_data, day_dist, top_n, crime_df, crime_stats,
                 exception, csv_columns, avg_crimes_per_cluster, heatmap_pivot, daily_trend,
                 arrest_by_crime, cluster_sizes, exact_key_metrics, arrest_rate_value,
                 data_path_exists>>

CallArrestRate ==
  /\ pc = "start"
  /\ \E t \in Datasets :
       /\ df' = t
       /\ df_filtered' = t
       /\ arrest_rate_value' = arrest_rate(t)
  /\ pc' = "called_arrest_rate"
  /\ UNCHANGED <<now, time_window, df_time, cluster_choice, total, hotspots, noise_pct,
                 arrests_stats, hotspot_data, hour_dist, day_dist, top_n, crime_df,
                 crime_stats, exception, csv_columns, avg_crimes_per_cluster, heatmap_pivot,
                 daily_trend, arrest_by_crime, cluster_sizes, exact_key_metrics,
                 data_path_exists>>

CallClusterHotspots ==
  /\ pc = "start"
  /\ \E t \in Datasets :
       /\ df' = t
       /\ df_filtered' = t
       /\ hotspot_data' = get_cluster_hotspots(t)
  /\ pc' = "called_get_cluster_hotspots"
  /\ UNCHANGED <<now, time_window, df_time, cluster_choice, total, hotspots, noise_pct,
                 arrests_stats, hour_dist, day_dist, top_n, crime_df, crime_stats, exception,
                 csv_columns, avg_crimes_per_cluster, heatmap_pivot, daily_trend,
                 arrest_by_crime, cluster_sizes, exact_key_metrics, arrest_rate_value,
                 data_path_exists>>

CallDailyCrimeTrend ==
  /\ pc = "start"
  /\ \E t \in Datasets :
       /\ df' = t
       /\ df_filtered' = t
       /\ daily_trend' = get_daily_crime_trend(t)
  /\ pc' = "called_get_daily_crime_trend"
  /\ UNCHANGED <<now, time_window, df_time, cluster_choice, total, hotspots, noise_pct,
                 arrests_stats, hotspot_data, hour_dist, day_dist, top_n, crime_df,
                 crime_stats, exception, csv_columns, avg_crimes_per_cluster, heatmap_pivot,
                 arrest_by_crime, cluster_sizes, exact_key_metrics, arrest_rate_value,
                 data_path_exists>>

CallHourCrimeDistribution ==
  /\ pc = "start"
  /\ \E t \in Datasets :
       /\ df' = t
       /\ df_filtered' = t
       /\ hour_dist' = get_hour_crime_distribution(t)
  /\ pc' = "called_get_hour_crime_distribution"
  /\ UNCHANGED <<now, time_window, df_time, cluster_choice, total, hotspots, noise_pct,
                 arrests_stats, hotspot_data, day_dist, top_n, crime_df, crime_stats,
                 exception, csv_columns, avg_crimes_per_cluster, heatmap_pivot, daily_trend,
                 arrest_by_crime, cluster_sizes, exact_key_metrics, arrest_rate_value,
                 data_path_exists>>

(* called on a table that carries the day_name column, as tab2 prepares it *)
CallDayWeekDistribution ==
  /\ pc = "start"
  /\ \E t \in Datasets :
       /\ df' = t
       /\ df_filtered' = with_day_name(t)
       /\ day_dist' = get_day_week_distribution(with_day_name(t))
  /\ pc' = "called_get_day_week_distribution"
  /\ UNCHANGED <<now, time_window, df_time, cluster_choice, total, hotspots, noise_pct,
                 arrests_stats, hotspot_data, hour_dist, top_n, crime_df, crime_stats,
                 exception, csv_columns, avg_crimes_per_cluster, heatmap_pivot, daily_trend,
                 arrest_by_crime, cluster_sizes, exact_key_metrics, arrest_rate_value,
                 data_path_exists>>

CallArrestStatistics ==
  /\ pc = "start"
  /\ \E t \in Datasets :
       /\ df' = t
       /\ df_filtered' = t
       /\ arrests_stats' = get_arrest_statistics(t)
  /\ pc' = "called_get_arrest_statistics"
  /\ UNCHANGED <<now, time_window, df_time, cluster_choice, total, hotspots, noise_pct,
                 hotspot_data, hour_dist, day_dist, top_n, crime_df, crime_stats, exception,
                 csv_columns, avg_crimes_per_cluster, heatmap_pivot, daily_trend,
                 arrest_by_crime, cluster_sizes, exact_key_metrics, arrest_rate_value,
                 data_path_exists>>

NextLib ==
  \/ Next
  \/ CallFilterByCluster
  \/ CallTopCrimeTypes
  \/ CallOverviewMetrics
  \/ CallExactKeyMetrics
  \/ CallHourlyDistribution
  \/ CallArrestRate
  \/ CallClusterHotspots
  \/ CallDailyCrimeTrend
  \/ CallHourCrimeDistribution
  \/ CallDayWeekDistribution
  \/ CallArrestStatistics

SpecLib == Init /\ [][NextLib]_vars

-----------------------------------------------------------------------------
(* Properties *)

Occurrences(t, r) == Cardinality({i \in DOMAIN t : t[i] = r})

Abs(x) == IF x < 0 THEN 0 - x ELSE x

ClusterIdsOf(t) == {t[i].st_cluster : i \in DOMAIN t}

(* script positions at which a result is in place *)
TimeFilterDone == pc \in {"sidebar_cluster", "key_metrics", "tab1", "tab2_day_name", "stopped"}

ClusterFilterDone == pc \in {"key_metrics", "tab1", "tab2_day_name", "stopped"}

MetricsDone ==
  pc \in {"tab1", "tab2_day_name", "tab2_heatmap", "tab2_hour", "tab2_day", "tab2_trend", "tab3",
          "tab4", "done", "stopped"}

HotspotsDone ==
  pc \in {"tab2_day_name", "tab2_heatmap", "tab2_hour", "tab2_day", "tab2_trend", "tab3", "tab4",
          "done"}

HourDone == pc \in {"tab2_day", "tab2_trend", "tab3", "tab4", "done"}

DayDone == pc \in {"tab2_trend", "tab3", "tab4", "done"}

Cutoff == now - time_window * HoursPerDay

(* C1: apply_time_filter(T, W) returns exactly the records of T whose       *)
(* timestamp is >= now - W days: nothing older is kept, nothing at or after *)
(* the cutoff (future dates included) is dropped, nothing foreign appears,  *)
(* possibly leaving the empty table.                                        *)
C1_TimeFilterExact ==
  TimeFilterDone =>
    /\ \A i \in DOMAIN df_time : df_time[i].date >= Cutoff
    /\ \A r \in Range(df) \cup Range(df_time) :
         Occurrences(df_time, r) = IF r.date >= Cutoff THEN Occurrences(df, r) ELSE 0

C1_Witness ==
  /\ pc = "sidebar_cluster"
  /\ \E i, j, k \in DOMAIN df :
       df[i].date < Cutoff /\ df[j].date = Cutoff /\ df[k].date > now
  /\ Len(df_time) = 2

C3_HotspotsSortedDescending ==
  HotspotsDone =>
    /\ \A i \in 1 .. Len(hotspot_data) - 1 : hotspot_data[i].count >= hotspot_data[i + 1].count
    /\ \A k \in 0 .. Len(hotspot_data) :
         \A i \in 1 .. k, j \in k + 1 .. Len(hotspot_data) :
           hotspot_data[i].count >= hotspot_data[j].count

C3_Witness ==
  /\ HotspotsDone
  /\ Len(hotspot_data) = 2
  /\ hotspot_data[1].st_cluster > hotspot_data[2].st_cluster
  /\ hotspot_data[1].count > hotspot_data[2].count

(* C4: get_overview_metrics(T) gives total = rows of T, active hotspots =   *)
(* distinct cluster ids other than -1, noise_pct = noise rows / total * 100 *)
(* on the exact counts, within [0, 100] and 0 when total = 0; two records   *)
(* in cluster 1 and one noise record give 3, 1 and 33.33.                   *)
C4_OverviewMetrics ==
  MetricsDone =>
    LET noise == Cardinality({i \in DOMAIN df_filtered : df_filtered[i].st_cluster = NOISE})
    IN  /\ total = Len(df_filtered)
        /\ hotspots = Cardinality(ClusterIdsOf(df_filtered) \ {NOISE})
        /\ noise_pct.den > 0
        /\ noise_pct.num * total = 100 * noise * noise_pct.den
        /\ 0 <= noise_pct.num /\ noise_pct.num <= 100 * noise_pct.den
        /\ (total = 0 => noise_pct.num = 0)
        /\ (Column(df_filtered, "st_cluster") = <<1, 1, NOISE>> =>
              total = 3 /\ hotspots = 1 /\ Round2(noise_pct.num, noise_pct.den) = 3333)

C4_Witness ==
  /\ pc = "tab1"
  /\ Column(df_filtered, "st_cluster") = <<1, 1, NOISE>>
  /\ total = 3 /\ hotspots = 1

(* C5 as stated: the by-hour distribution always has exactly 24 rows, one   *)
(* per hour 0..23 ascending, hours without incidents with count 0.          *)
C5_Original ==
  HourDone =>
    /\ Len(hour_dist) = 24
    /\ \A i \in 1 .. 24 :
         /\ hour_dist[i].hour = i - 1
         /\ hour_dist[i].count = CountEq(df_filtered, "hour", i - 1)

(* C5 amended: the by-hour distribution has one row for each hour that      *)
(* occurs in the table, hours ascending, each with the number of records of *)
(* that hour; an hour without incidents has no row.                         *)
C5_HourRowsForPresentHours ==
  HourDone =>
    /\ {hour_dist[i].hour : i \in DOMAIN hour_dist} = Range(Column(df_filtered, "hour"))
    /\ \A i \in 1 .. Len(hour_dist) - 1 : hour_dist[i].hour < hour_dist[i + 1].hour
    /\ \A i \in DOMAIN hour_dist :
         /\ hour_dist[i].count = CountEq(df_filtered, "hour", hour_dist[i].hour)
         /\ hour_dist[i].count > 0
         /\ hour_dist[i].hour \in 0 .. 23

C5_Witness ==
  /\ HourDone
  /\ Len(hour_dist) = 2
  /\ hour_dist[1].hour = 0 /\ hour_dist[1].count = 1
  /\ hour_dist[2].hour = 23 /\ hour_dist[2].count = 2

FilterExact(input, choice, out) ==
  IF choice = All THEN out = input
  ELSE \A r \in Range(input) \cup Range(out) :
         Occurrences(out, r) = IF r.st_cluster = choice.id THEN Occurrences(input, r) ELSE 0

(* C6: filter_by_cluster(T, s) returns all of T for "All" and otherwise     *)
(* exactly the records of T whose cluster id equals s, -1 included when it  *)
(* is the selector.                                                         *)
C6_ClusterFilterExact ==
  /\ pc = "called_filter_by_cluster" => FilterExact(df, cluster_choice, df_filtered)
  /\ ClusterFilterDone => FilterExact(df_time, cluster_choice, df_filtered)

C6_Witness ==
  /\ pc = "called_filter_by_cluster"
  /\ cluster_choice = Hotspot(NOISE)
  /\ Len(df_filtered) = 2
  /\ Len(df) = 3

(* C7: top_crime_types(T, top_n) returns min(top_n, distinct categories)    *)
(* rows, each a distinct category with its exact count in T, counts         *)
(* non-increasing, and no category left out is more frequent than a         *)
(* returned one.                                                            *)
C7_TopCrimeTypes ==
  pc = "called_top_crime_types" =>
    LET cats     == Range(Column(df, "primary_type"))
        returned == {crime_df[i].crime_type : i \in DOMAIN crime_df}
    IN  /\ Len(crime_df) = IF top_n < Cardinality(cats) THEN top_n ELSE Cardinality(cats)
        /\ Cardinality(returned) = Len(crime_df)
        /\ returned \subseteq cats
        /\ \A i \in DOMAIN crime_df :
             crime_df[i].crime_count = CountEq(df, "primary_type", crime_df[i].crime_type)
        /\ \A i \in 1 .. Len(crime_df) - 1 :
             crime_df[i].crime_count >= crime_df[i + 1].crime_count
        /\ \A c \in cats \ returned : \A i \in DOMAIN crime_df :
             CountEq(df, "primary_type", c) <= crime_df[i].crime_count

C7_Witness ==
  /\ pc = "called_top_crime_types"
  /\ top_n = 2
  /\ Len(crime_df) = 2
  /\ Cardinality(Range(Column(df, "primary_type"))) > 2
  /\ \A i \in DOMAIN crime_df : crime_df[i].crime_type # df[1].primary_type

PctSum == SumSeq(Column(crime_stats, "pct"))

PctRounded ==
  LET total_count == SumSeq(Column(crime_df, "crime_count"))
  IN  /\ Len(crime_stats) = Len(crime_df)
      /\ \A i \in DOMAIN crime_stats :
           /\ crime_stats[i].Crime_Type = crime_df[i].crime_type
           /\ crime_stats[i].Count = crime_df[i].crime_count
           /\ 2 * Abs(crime_stats[i].pct * total_count - 10000 * crime_df[i].crime_count)
                <= total_count

(* C8 as stated: each percentage is count / (sum of the returned counts)    *)
(* * 100 rounded to 2 decimals, and the percentages sum to 100.00 +/- 0.01. *)
C8_Original ==
  pc = "done" => PctRounded /\ Abs(PctSum - 10000) <= 1

(* C8 amended: each percentage is count / (sum of the returned counts)      *)
(* * 100 rounded to 2 decimals, and the percentages of n returned rows sum  *)
(* to 100.00 within +/- 0.005 * n.                                          *)
C8_PercentagesSumWithinRounding ==
  pc = "done" => PctRounded /\ 2 * Abs(PctSum - 10000) <= Len(crime_stats)

C8_Witness ==
  /\ pc = "done"
  /\ Len(crime_stats) = 6
  /\ PctSum = 10002

(* C9: get_day_week_distribution lists the weekdays that occur in the data  *)
(* in Monday..Sunday order, each with the number of records falling on it;  *)
(* absent weekdays are left out without reordering the others.              *)
C9_DayOfWeekOrder ==
  DayDone =>
    /\ \A i \in 1 .. Len(day_dist) - 1 :
         IndexOf(day_order, day_dist[i].day_name) < IndexOf(day_order, day_dist[i + 1].day_name)
    /\ {day_dist[i].day_name : i \in DOMAIN day_dist}
         = {day_name(df_filtered[j].date) : j \in DOMAIN df_filtered}
    /\ \A i \in DOMAIN day_dist :
         day_dist[i].count =
           Cardinality({j \in DOMAIN df_filtered :
                          day_name(df_filtered[j].date) = day_dist[i].day_name})

C9_Witness ==
  /\ DayDone
  /\ Len(day_dist) = 3
  /\ day_dist[1].day_name = "Tuesday"
  /\ day_dist[2].day_name = "Wednesday"
  /\ day_dist[3].day_name = "Thursday"

(* C10: get_arrest_statistics(T) gives total_arrests = the number of        *)
(* records whose arrest flag is true and an arrest rate of                  *)
(* total_arrests / total * 100, which is 0.0 when T has no rows.            *)
C10_ArrestStatistics ==
  MetricsDone =>
    LET arrested == Cardinality({i \in DOMAIN df_filtered : df_filtered[i].arrest})
        rate     == arrests_stats.arrest_rate
    IN  /\ arrests_stats.total_arrests = arrested
        /\ rate.den > 0
        /\ rate.num * Len(df_filtered) = 100 * arrested * rate.den
        /\ (Len(df_filtered) = 0 => rate.num = 0)

C10_Witness ==
  /\ pc = "tab1"
  /\ Len(df_filtered) = 3
  /\ arrests_stats.total_arrests = 1
  /\ arrests_stats.arrest_rate = Frac(100, 3)

CalledOnTable ==
  pc \in {"called_get_overview_metrics", "called_get_exact_key_metrics",
          "called_hourly_distribution", "called_arrest_rate", "called_get_cluster_hotspots",
          "called_get_daily_crime_trend", "called_get_hour_crime_distribution",
          "called_get_day_week_distribution", "called_get_arrest_statistics"}

(* C11: every aggregation function called on a table with zero rows returns *)
(* its zero/empty result and raises nothing: overview metrics 0, 0, 0,      *)
(* arrest statistics 0 and 0.0, an empty hotspot summary, empty             *)
(* distributions and ranking.                                               *)
C11_EmptyInputZeroResults ==
  /\ (CalledOnTable /\ df_filtered = <<>>) => exception = "none"
  /\ (pc = "called_top_crime_types" /\ df = <<>>) => exception = "none" /\ crime_df = <<>>
  /\ (pc \in {"called_get_overview_metrics", "stopped"} /\ df_filtered = <<>>) =>
       total = 0 /\ hotspots = 0 /\ noise_pct = Frac(0, 1)
  /\ (pc \in {"called_get_arrest_statistics", "stopped"} /\ df_filtered = <<>>) =>
       arrests_stats = [total_arrests |-> 0, arrest_rate |-> Frac(0, 1)]
  /\ (pc = "called_get_exact_key_metrics" /\ df_filtered = <<>>) =>
       /\ exact_key_metrics.total_crimes = 0
       /\ exact_key_metrics.hotspot_count = 0
       /\ exact_key_metrics.total_arrests = 0
       /\ exact_key_metrics.arrest_rate_pct = Frac(0, 1)
       /\ exact_key_metrics.noise_pct = Frac(0, 1)
       /\ exact_key_metrics.avg_per_hotspot = Frac(0, 1)
  /\ (pc = "called_arrest_rate" /\ df_filtered = <<>>) => arrest_rate_value = Frac(0, 1)
  /\ (pc = "called_get_cluster_hotspots" /\ df_filtered = <<>>) => hotspot_data = <<>>
  /\ (pc \in {"called_hourly_distribution", "called_get_hour_crime_distribution"}
        /\ df_filtered = <<>>) => hour_dist = <<>>
  /\ (pc = "called_get_day_week_distribution" /\ df_filtered = <<>>) => day_dist = <<>>
  /\ (pc = "called_get_daily_crime_trend" /\ df_filtered = <<>>) => daily_trend = <<>>

C11_Witness ==
  /\ pc = "called_get_overview_metrics"
  /\ df_filtered = <<>>
  /\ total = 0 /\ hotspots = 0 /\ noise_pct = Frac(0, 1)
  /\ exception = "none"

Defined(f) == f.den > 0

TabPositions ==
  {"tab1", "tab2_day_name", "tab2_heatmap", "tab2_hour", "tab2_day", "tab2_trend", "tab3", "tab4"}

(* C13: no step of the tabs writes to a table it was given: the loaded     *)
(* table, the time-filtered table and the filtered view keep their rows    *)
(* and columns across every step that follows the filters.                 *)
C13_Original ==
  [][(pc \in TabPositions) =>
       (df' = df /\ df_time' = df_time /\ df_filtered' = df_filtered)]_vars

HeatmapDone == pc \in {"tab2_hour", "tab2_day", "tab2_trend", "tab3", "tab4", "done"}

HeatmapCount(d, h) ==
  LET In(r) == day_name(r.date) = d /\ r.hour = h IN Len(SelectSeq(df_filtered, In))

(* C14: the heatmap grid has the weekday rows Monday to Sunday and the 24  *)
(* hour columns 0..23 ascending, and each cell is the number of incidents  *)
(* of that weekday and hour, 0 where none was observed.                    *)
C14_Original ==
  HeatmapDone =>
    /\ heatmap_pivot.index = day_order
    /\ heatmap_pivot.columns = range_24
    /\ heatmap_pivot.na = {}
    /\ \A i \in 1 .. 7 : \A j \in 1 .. 24 :
         heatmap_pivot.data[i][j] = HeatmapCount(day_order[i], range_24[j])

(* C15: when the dataset lacks a required column, the loader raises the   *)
(* missing-columns ValueError and the session stops at the load, before   *)
(* any filter or aggregation.                                             *)
C15_Original ==
  (pc # "start" /\ data_path_exists /\ required_cols \ csv_columns # {}) =>
    (exception = "ValueError" /\ pc = "load_failed")

====
